---- MODULE Spec2Model ----
(***************************************************************************)
(* A model of src/index.js: an express application exposing the            *)
(* collections of a MongoDB database as REST resources, plus the GitHub    *)
(* webhook endpoint that fills the build queue.                            *)
(*                                                                         *)
(* Strings are sequences of one-character strings, so that camelize, the   *)
(* parent field name and the ObjectID parser are computed as the code      *)
(* computes them.  A document is a function from field names to values; a  *)
(* value is a record [t, n, s] (type tag, number, string).  A collection   *)
(* is the sequence of its documents in natural (insertion) order.          *)
(***************************************************************************)
EXTENDS Integers, Sequences, FiniteSets, TLC

VARIABLES
    db,        \* collection name -> sequence of documents
    reqs,      \* the requests received so far, each with its position
    now,       \* the last reading of the system clock (new Date())
    nextOid,   \* how many ObjectIDs the driver has generated
    log,       \* the operations the store has answered, in order
    handle,    \* the variable db of index.js: 0 while it is undefined, else
               \* the number of assignments it has had
    server     \* "connecting", "listening" or "exited"

vars == <<db, reqs, now, nextOid, log, handle, server>>

-----------------------------------------------------------------------------
(* Bounds of the model *)

MaxRequests == 2

-----------------------------------------------------------------------------
(* Strings *)

Lower == <<"a","b","c","d","e","f","g","h","i","j","k","l","m",
           "n","o","p","q","r","s","t","u","v","w","x","y","z">>
Upper == <<"A","B","C","D","E","F","G","H","I","J","K","L","M",
           "N","O","P","Q","R","S","T","U","V","W","X","Y","Z">>

toUpperCase(c) ==
    IF \E i \in DOMAIN Lower : Lower[i] = c
    THEN Upper[CHOOSE i \in DOMAIN Lower : Lower[i] = c]
    ELSE c

toLowerCase(c) ==
    IF \E i \in DOMAIN Upper : Upper[i] = c
    THEN Lower[CHOOSE i \in DOMAIN Upper : Upper[i] = c]
    ELSE c

\* the class [-_\s] of camelize's regular expression
IsSeparator(c) == c \in {"-", "_", " "}

RECURSIVE trimLeft(_)
trimLeft(s) ==
    IF s # <<>> /\ Head(s) = " " THEN trimLeft(Tail(s)) ELSE s

RECURSIVE trimRight(_)
trimRight(s) ==
    IF s # <<>> /\ s[Len(s)] = " "
    THEN trimRight(SubSeq(s, 1, Len(s) - 1))
    ELSE s

trim(s) == trimRight(trimLeft(s))

RECURSIVE skipSeparators(_)
skipSeparators(s) ==
    IF s # <<>> /\ IsSeparator(Head(s)) THEN skipSeparators(Tail(s)) ELSE s

\* replace(/[-_\s]+(.)?/g, function (match, c) { return c ? c.toUpperCase() : ''; })
RECURSIVE camelizeReplace(_)
camelizeReplace(s) ==
    IF s = <<>> THEN <<>>
    ELSE IF IsSeparator(Head(s))
         THEN LET rest == skipSeparators(s)
              IN  IF rest = <<>> THEN <<>>
                  ELSE <<toUpperCase(Head(rest))>> \o camelizeReplace(Tail(rest))
         ELSE <<Head(s)>> \o camelizeReplace(Tail(s))

\* str.camelize of underscore.string
camelize(s) == camelizeReplace(trim(s))


-----------------------------------------------------------------------------
(* Values and documents *)

Value(t, n, s) == [t |-> t, n |-> n, s |-> s]

Undefined == Value("undefined", 0, <<>>)
Null == Value("null", 0, <<>>)
False == Value("boolean", 0, <<>>)
String(s) == Value("string", 0, s)
Number(n) == Value("number", n, <<>>)
Date(n) == Value("Date", n, <<>>)
Oid(hex) == Value("ObjectID", 0, hex)
\* a nested object, the n-th of Objects below
Object(n) == Value("object", n, <<>>)

EmptyDoc == [f \in {} |-> Undefined]

\* doc.f
Get(doc, f) == IF f \in DOMAIN doc THEN doc[f] ELSE Undefined

\* doc.f = v
Put(doc, f, v) == [g \in DOMAIN doc \cup {f} |-> IF g = f THEN v ELSE doc[g]]

\* delete doc.f
Delete(doc, f) == [g \in DOMAIN doc \ {f} |-> doc[g]]

\* the truth value JavaScript gives v in a condition
Truthy(v) ==
    CASE v.t \in {"undefined", "null"} -> FALSE
      [] v.t = "string" -> v.s # <<>>
      [] v.t \in {"number", "boolean"} -> v.n # 0
      [] OTHER -> TRUE

\* field names
F_id == <<"_", "i", "d">>
F_createdAt == <<"c","r","e","a","t","e","d","A","t">>
F_updatedAt == <<"u","p","d","a","t","e","d","A","t">>
F_name == <<"n","a","m","e">>
F_ref == <<"r","e","f">>
F_repository == <<"r","e","p","o","s","i","t","o","r","y">>
F_full_name == <<"f","u","l","l","_","n","a","m","e">>
F_clone_url == <<"c","l","o","n","e","_","u","r","l">>
F_head_commit == <<"h","e","a","d","_","c","o","m","m","i","t">>
F_pusher == <<"p","u","s","h","e","r">>
F_fullName == <<"f","u","l","l","N","a","m","e">>
F_repo == <<"r","e","p","o">>
F_commit == <<"c","o","m","m","i","t">>
F_endpoint == <<"e","n","d","p","o","i","n","t">>
F_buildAt == <<"b","u","i","l","d","A","t">>
F_nrOfAttempts == <<"n","r","O","f","A","t","t","e","m","p","t","s">>
F_isSuccessful == <<"i","s","S","u","c","c","e","s","s","f","u","l">>
F_message == <<"m","e","s","s","a","g","e">>
F_widgetsId == <<"w","i","d","g","e","t","s","I","d">>
F_myRepoId == <<"m","y","R","e","p","o","I","d">>

-----------------------------------------------------------------------------
(* ObjectID, as the mongodb driver parses it *)

HexDigit == <<"0","1","2","3","4","5","6","7","8","9","a","b","c","d","e","f">>

\* /^[0-9a-fA-F]{24}$/
IsHexChar(c) == \E i \in DOMAIN HexDigit : HexDigit[i] = toLowerCase(c)

\* c.charCodeAt(0), for the characters the model uses
charCode(c) ==
    CASE \E i \in DOMAIN Lower : Lower[i] = c ->
            96 + (CHOOSE i \in DOMAIN Lower : Lower[i] = c)
      [] \E i \in DOMAIN Upper : Upper[i] = c ->
            64 + (CHOOSE i \in DOMAIN Upper : Upper[i] = c)
      [] \E i \in 1..10 : HexDigit[i] = c ->
            47 + (CHOOSE i \in 1..10 : HexDigit[i] = c)
      [] c = "-" -> 45
      [] c = "_" -> 95
      [] OTHER -> 32

\* the two hexadecimal digits of a byte
byteHex(n) == <<HexDigit[(n \div 16) + 1], HexDigit[(n % 16) + 1]>>

RECURSIVE toHexString(_)
toHexString(bytes) ==
    IF bytes = <<>> THEN <<>>
    ELSE byteHex(charCode(Head(bytes))) \o toHexString(Tail(bytes))

\* a parser that looks at the length alone
ObjectIDByLength(id) ==
    IF Len(id) # 12 /\ Len(id) # 24
    THEN [thrown |-> TRUE, hex |-> <<>>]
    ELSE IF Len(id) = 12
    THEN [thrown |-> FALSE, hex |-> toHexString(id)]
    ELSE [thrown |-> FALSE, hex |-> [i \in DOMAIN id |-> toLowerCase(id[i])]]

\* new mongodb.ObjectID(id) for a string id: the identifier as its 24
\* hexadecimal digits, or a thrown error
ObjectID(id) ==
    IF Len(id) # 12 /\ Len(id) # 24
    THEN [thrown |-> TRUE, hex |-> <<>>]
    ELSE IF Len(id) = 12
    THEN [thrown |-> FALSE, hex |-> toHexString(id)]
    ELSE IF \A i \in DOMAIN id : IsHexChar(id[i])
    THEN [thrown |-> FALSE, hex |-> [i \in DOMAIN id |-> toLowerCase(id[i])]]
    ELSE [thrown |-> TRUE, hex |-> <<>>]

\* the k-th identifier the driver generates: new ObjectID()
generate(k) == [i \in 1..24 |-> IF i = 24 THEN HexDigit[k + 1] ELSE "0"]

-----------------------------------------------------------------------------
(* The store: collection operations of the mongodb driver *)

HOOK == <<"_","h","o","o","k">>
COLLECTION == <<"_","c","o","l","l","e","c","t","i","o","n">>
BUILDQUEUE == <<"b","u","i","l","d","q","u","e","u","e">>
WIDGETS == <<"w","i","d","g","e","t","s">>

\* the positions of the documents of docs whose _id is id
Matching(docs, id) == {i \in DOMAIN docs : Get(docs[i], F_id) = id}

First(S) == CHOOSE i \in S : \A j \in S : i <= j

\* the document as the driver sends it: a missing _id is generated
WithId(doc, k) ==
    IF F_id \in DOMAIN doc THEN doc ELSE Put(doc, F_id, Oid(generate(k)))

\* collection.insert(doc): a duplicate _id is a store error
insert(docs, doc) ==
    IF Matching(docs, doc[F_id]) # {}
    THEN [err |-> TRUE, down |-> FALSE, n |-> 0, docs |-> docs]
    ELSE [err |-> FALSE, down |-> FALSE, n |-> 1, docs |-> Append(docs, doc)]

\* collection.findOne({_id: id}): the documents found, none or one
findOne(docs, id) ==
    IF Matching(docs, id) = {} THEN <<>>
    ELSE <<docs[First(Matching(docs, id))]>>

\* an update that inserts the body when nothing matches (upsert)
updateOrInsert(docs, id, body) ==
    IF Matching(docs, id) = {}
    THEN [err |-> FALSE, down |-> FALSE, n |-> 1,
          docs |-> Append(docs, Put(body, F_id, id))]
    ELSE [err |-> FALSE, down |-> FALSE, n |-> 1,
          docs |-> [docs EXCEPT ![First(Matching(docs, id))] = Put(body, F_id, id)]]

\* collection.update({_id: id}, body): replaces the first match, which keeps
\* its _id; a body with another _id is a store error
update(docs, id, body) ==
    IF Matching(docs, id) = {}
    THEN [err |-> FALSE, down |-> FALSE, n |-> 0, docs |-> docs]
    ELSE IF F_id \in DOMAIN body /\ body[F_id] # id
    THEN [err |-> TRUE, down |-> FALSE, n |-> 0, docs |-> docs]
    ELSE [err |-> FALSE, down |-> FALSE, n |-> 1,
          docs |-> [docs EXCEPT ![First(Matching(docs, id))] = Put(body, F_id, id)]]

\* a remove that reports one document removed whatever it found
removeReportingOne(docs, id) ==
    [err |-> FALSE, down |-> FALSE, n |-> 1,
     docs |-> SelectSeq(docs, LAMBDA d : Get(d, F_id) # id)]

\* collection.remove({_id: id}, {single: true})
remove(docs, id) ==
    IF Matching(docs, id) = {}
    THEN [err |-> FALSE, down |-> FALSE, n |-> 0, docs |-> docs]
    ELSE LET k == First(Matching(docs, id))
         IN  [err |-> FALSE, down |-> FALSE, n |-> 1,
              docs |-> SubSeq(docs, 1, k - 1) \o SubSeq(docs, k + 1, Len(docs))]

\* whether a document satisfies an equality filter
Satisfies(doc, filter) == \A f \in DOMAIN filter : Get(doc, f) = filter[f]

\* collection.find(filter): the documents of the cursor, in natural order
find(docs, filter) == SelectSeq(docs, LAMBDA d : Satisfies(d, filter))

\* the store is out of reach: the operation fails and changes nothing
Failure(docs) == [err |-> TRUE, down |-> TRUE, n |-> 0, docs |-> docs]

-----------------------------------------------------------------------------
(* Requests *)

REFS_HEADS_MASTER ==
    <<"r","e","f","s","/","h","e","a","d","s","/","m","a","s","t","e","r">>
REFS_HEADS_DEVELOP ==
    <<"r","e","f","s","/","h","e","a","d","s","/","d","e","v","e","l","o","p">>
PROD == <<"p","r","o","d">>
FOO == <<"f","o","o">>
BAR == <<"b","a","r">>

\* the nested objects of the payloads: repository, head_commit, pusher,
\* and the object with the fields of the last two
Objects ==
    << (F_full_name :> String(<<"o","/","r">>)) @@ (F_name :> String(<<"r">>))
         @@ (F_clone_url :> String(<<"u">>)),
       (F_id :> String(<<"c","1">>)),
       (F_name :> String(<<"m","e">>)),
       (F_id :> String(<<"c","1">>)) @@ (F_name :> String(<<"m","e">>)) >>

\* v.f throws a TypeError when v is undefined or null
CannotRead(v) == v.t \in {"undefined", "null"}
Member(v, f) == IF v.t = "object" THEN Get(Objects[v.n], f) ELSE Undefined

Request(method, path, hasBody, body, query) ==
    [method |-> method, path |-> path, hasBody |-> hasBody, body |-> body,
     query |-> query]

\* the route that handles a request: the first that matches, in the order
\* of registration
Route(method, path) ==
    CASE method = "POST" /\ Len(path) \in {1, 2} /\ path[1] = HOOK -> "hook"
      [] method = "GET" /\ path = <<COLLECTION>> -> "collections"
      [] method = "GET" /\ Len(path) = 2 /\ path[1] = COLLECTION -> "schema"
      [] method = "GET" /\ Len(path) = 1 /\ path # <<COLLECTION>> -> "list"
      [] method = "GET" /\ Len(path) = 2 /\ path[1] # COLLECTION -> "get"
      [] method = "GET" /\ Len(path) = 3 -> "nestedGet"
      [] method = "POST" /\ Len(path) = 1 -> "post"
      [] method = "POST" /\ Len(path) = 3 -> "nestedPost"
      [] method = "PUT" /\ Len(path) = 2 -> "put"
      [] method = "DELETE" /\ Len(path) = 2 -> "delete"
      [] OTHER -> "none"

\* a request as express hands it to the first handler of its route
Incoming(in) ==
    [method |-> in.method, path |-> in.path, hasBody |-> in.hasBody,
     route |-> Route(in.method, in.path),
     body |-> in.body,            \* the payload, req.body once parsed
     parsed |-> FALSE,            \* req.body is set
     query |-> in.query,          \* req.query
     resource |-> <<>>,           \* req.resource, naming req.collection
     parentField |-> <<>>,        \* req.parentField
     id |-> Undefined,            \* req.id
     pc |-> "start",
     arg |-> EmptyDoc,            \* the document of the pending store call
     status |-> 0,                \* the status of the response, 0: none yet
     responses |-> 0,             \* the responses sent
     sent |-> <<>>,               \* the documents of the response body
     trace |-> <<>>,              \* the steps taken, in order
     at |-> 0,                    \* of a PUT: the length of the log at its arrival
     db |-> handle,               \* req.db
     cursor |-> <<>>,             \* the documents the cursor has yet to give
     cur |-> "none",              \* the cursor: "none", "open" or "closed"
     connected |-> TRUE,          \* the client is there to read the response
     count |-> 0,                 \* the count of the introspection
     merged |-> EmptyDoc,         \* the accumulator of the introspection
     collections |-> <<>>,        \* the collection names the store reported
     schema |-> EmptyDoc]         \* the schema of the introspection

Respond(r, status, docs) ==
    [r EXCEPT !.status = status, !.responses = @ + 1, !.sent = docs,
              !.pc = "done"]

Step(r, step) == [r EXCEPT !.trace = Append(@, step)]

\* a handler's store call: the request waits for the callback
Call(r, op, arg) == [Step(r, op) EXCEPT !.pc = op, !.arg = arg]

\* new Date(): the clock reads what it last read, or later
Clock == {now, now + 1}

\* express takes a request and runs it up to its first store call,
\* reading t on the clock if it reads it
Receive(r, t) ==
    /\ server = "listening"
    /\ reqs' = Append(reqs, r)
    /\ now' = t
    /\ UNCHANGED <<db, nextOid, log, handle, server>>

\* the store answers the call of request i on collection coll, and the
\* callback leaves the request as r, reading t on the clock if it reads it
Answer(i, op, coll, id, res, doc, r, t) ==
    /\ db' = [db EXCEPT ![coll] = res.docs]
    /\ log' = Append(log, [req |-> i, op |-> op, coll |-> coll, id |-> id,
                           err |-> res.err, down |-> res.down, n |-> res.n,
                           doc |-> doc])
    /\ reqs' = [reqs EXCEPT ![i] = r]
    /\ now' = t
    /\ UNCHANGED <<handle, server>>

-----------------------------------------------------------------------------
(* Startup *)

\* a callback that goes on without a connection
connectCallbackNoThrow(err) ==
    IF err THEN [handle |-> handle, server |-> "listening"]
    ELSE [handle |-> handle + 1, server |-> "listening"]

\* the callback of MongoClient.connect: throw err, which ends the process,
\* or db = database and then app.listen(port)
connectCallback(err) ==
    IF err THEN [handle |-> handle, server |-> "exited"]
    ELSE [handle |-> handle + 1, server |-> "listening"]

\* the connection to the store succeeds or fails, once
Connect(err) ==
    /\ server = "connecting"
    /\ handle' = connectCallback(err).handle
    /\ server' = connectCallback(err).server
    /\ UNCHANGED <<db, reqs, now, nextOid, log>>

-----------------------------------------------------------------------------
(* POST /_hook/:endpoint? *)

\* the middleware of the route hands on a verified request with its
\* payload parsed
githubWebhookMiddleware(r) == [r EXCEPT !.parsed = TRUE]

\* req.params.endpoint
Endpoint(r) == IF Len(r.path) = 2 THEN String(r.path[2]) ELSE Undefined

\* a build object that counts its creation as an attempt
BuildAttempted(r, t) ==
    (F_fullName :> Member(Get(r.body, F_repository), F_full_name))
        @@ (F_createdAt :> Date(t)) @@ (F_buildAt :> Null)
        @@ (F_nrOfAttempts :> Number(1))

\* the build object of the handler
Build(r, t) ==
    LET repository == Get(r.body, F_repository)
        head_commit == Get(r.body, F_head_commit)
    IN  (F_fullName :> Member(repository, F_full_name))
        @@ (F_name :> Member(repository, F_name))
        @@ (F_repo :> Member(repository, F_clone_url))
        @@ (F_commit :> IF Truthy(head_commit) THEN Member(head_commit, F_id)
                                                ELSE head_commit)
        @@ (F_endpoint :> Endpoint(r))
        @@ (F_createdAt :> Date(t))
        @@ (F_buildAt :> Null)
        @@ (F_nrOfAttempts :> Number(0))
        @@ (F_isSuccessful :> False)
        @@ (F_message :> Null)
        @@ (F_pusher :> Get(r.body, F_pusher))

\* the first test alone: every push is built, whatever its branch
SkipsHookWithoutRef(body) == ~Truthy(Get(body, F_ref))

\* the two tests on req.body.ref that skip the hook
SkipsHook(body) ==
    \/ ~Truthy(Get(body, F_ref))
    \/ Get(body, F_ref) # String(REFS_HEADS_MASTER)

\* a callback that does not look at err
hooksInsertCallbackIgnoringErr(r, err, t) ==
    IF SkipsHook(r.body) THEN Respond(Step(r, "ref"), 204, <<>>)
    ELSE IF CannotRead(Get(r.body, F_repository))
         THEN [Step(r, "ref") EXCEPT !.pc = "threw"]
    ELSE Call(Step(r, "ref"), "buildqueue.insert", Build(r, t))

\* the callback of hooks.insert, at time t
hooksInsertCallback(r, err, t) ==
    IF err THEN Respond(r, 500, <<>>)
    ELSE IF SkipsHook(r.body) THEN Respond(Step(r, "ref"), 204, <<>>)
    ELSE IF CannotRead(Get(r.body, F_repository))
         THEN [Step(r, "ref") EXCEPT !.pc = "threw"]
    ELSE Call(Step(r, "ref"), "buildqueue.insert", Build(r, t))

\* a callback that calls every outcome a success
buildqueueInsertCallbackAlways201(r, err) == Respond(r, 201, <<>>)

\* the callback of buildqueue.insert
buildqueueInsertCallback(r, err) ==
    IF err THEN Respond(r, 500, <<>>) ELSE Respond(r, 201, <<>>)

\* the handler up to its first store call: hooks.insert(req.body, ...)
Hook(in) ==
    /\ Len(reqs) < MaxRequests
    /\ Route(in.method, in.path) = "hook"
    /\ LET r == githubWebhookMiddleware(Incoming(in))
       IN  Receive(Call(r, "hooks.insert", r.body), now)

\* the store's answer to hooks.insert, and the callback on it
HooksInsert(i) ==
    /\ reqs[i].pc = "hooks.insert"
    /\ \E fails \in BOOLEAN, t \in Clock :
        LET r == reqs[i]
            doc == WithId(r.arg, nextOid + 1)
            res == IF fails THEN Failure(db[HOOK]) ELSE insert(db[HOOK], doc)
            q == hooksInsertCallback(r, res.err, t)
        IN  /\ (t # now) => (q.pc = "buildqueue.insert")
            /\ Answer(i, "insert", HOOK, doc[F_id], res, doc, q, t)
    /\ nextOid' = nextOid + 1

\* the store's answer to buildqueue.insert, and the callback on it
BuildqueueInsert(i) ==
    /\ reqs[i].pc = "buildqueue.insert"
    /\ \E fails \in BOOLEAN :
        LET r == reqs[i]
            doc == WithId(r.arg, nextOid + 1)
            res == IF fails THEN Failure(db[BUILDQUEUE])
                            ELSE insert(db[BUILDQUEUE], doc)
        IN  Answer(i, "insert", BUILDQUEUE, doc[F_id], res, doc,
                   buildqueueInsertCallback(r, res.err), now)
    /\ nextOid' = nextOid + 1

-----------------------------------------------------------------------------
(* The generic resource routes *)

\* app.use(bodyParser.json()): req.body is the parsed object, and an empty
\* object when the request has no body
bodyParser(r) ==
    [r EXCEPT !.parsed = TRUE,
              !.body = IF r.hasBody THEN r.body ELSE EmptyDoc]

\* !req.body
NoBody(r) == ~r.parsed

\* a handler that keeps to the collection of the build queue
paramResourceQueue(r, resource) == [r EXCEPT !.resource = BUILDQUEUE]

\* app.param('resource')
paramResource(r, resource) == [r EXCEPT !.resource = camelize(resource)]

\* app.param('mainResource')
paramMainResource(r, mainResource) ==
    [r EXCEPT !.parentField = camelize(mainResource) \o <<"I", "d">>]

\* app.param('id'): 400 when ObjectID throws, and next() is not called
paramId(r, id) ==
    IF ObjectID(id).thrown THEN Respond(r, 400, <<>>)
    ELSE [r EXCEPT !.id = Oid(ObjectID(id).hex)]

\* the parameters of /:resource/:id, in the order of the path
ResourceId(r) ==
    LET q == paramResource(r, r.path[1])
    IN  paramId(q, r.path[2])

\* the parameters of /:mainResource/:id/:resource, in the order of the path
MainResourceIdResource(r) ==
    LET q == paramId(paramMainResource(r, r.path[1]), r.path[2])
    IN  IF q.pc = "done" THEN q ELSE paramResource(q, r.path[3])

\* GET /:resource/:id
getResourceId(r) == Call(r, "findOne", EmptyDoc)

findOneCallback(r, err, doc) ==
    IF err THEN Respond(r, 500, <<>>)
    ELSE IF doc = <<>> THEN Respond(r, 404, <<>>)
    ELSE Respond(r, 200, doc)

GetResourceId(in) ==
    /\ Len(reqs) < MaxRequests
    /\ Route(in.method, in.path) = "get"
    /\ LET r == ResourceId(bodyParser(Incoming(in)))
       IN  Receive(IF r.pc = "done" THEN r ELSE getResourceId(r), now)

FindOne(i) ==
    /\ reqs[i].pc = "findOne"
    /\ \E fails \in BOOLEAN :
        LET r == reqs[i]
            doc == IF fails THEN <<>> ELSE findOne(db[r.resource], r.id)
        IN  Answer(i, "findOne", r.resource, r.id,
                   [err |-> fails, down |-> fails, n |-> Len(doc),
                    docs |-> db[r.resource]],
                   EmptyDoc, findOneCallback(r, fails, doc), now)
    /\ UNCHANGED nextOid

\* the callback of req.collection.find, which the driver calls with the
\* cursor before it has asked the store anything:
\* cursor.stream().pipe(JSONStream.stringify()).pipe(res)
findCallback(r, err) ==
    IF err THEN Respond(r, 500, <<>>) ELSE [r EXCEPT !.cur = "open"]

\* a filter in which the query wins over the path
getNestedQueryFirst(r) ==
    findCallback(Call(r, "find",
        IF r.parentField \in DOMAIN r.query THEN r.query
        ELSE Put(r.query, r.parentField, r.id)), FALSE)

\* GET /:mainResource/:id/:resource: the request waits for the store to
\* answer the query of the cursor
getNested(r) ==
    findCallback(Call(r, "find", Put(r.query, r.parentField, r.id)), FALSE)

\* GET /:resource
getResource(r) == findCallback(Call(r, "find", r.query), FALSE)

GetNested(in) ==
    /\ Len(reqs) < MaxRequests
    /\ Route(in.method, in.path) = "nestedGet"
    /\ LET r == MainResourceIdResource(bodyParser(Incoming(in)))
       IN  Receive(IF r.pc = "done" THEN r ELSE getNested(r), now)

GetResource(in) ==
    /\ Len(reqs) < MaxRequests
    /\ Route(in.method, in.path) = "list"
    /\ Receive(getResource(paramResource(bodyParser(Incoming(in)),
                                         in.path[1])), now)

\* the stream emits 'error' and nothing listens for it: the pipeline ends
\* there, the cursor destroyed, and no response is sent
streamError(r) == [r EXCEPT !.pc = "threw", !.cur = "closed", !.cursor = <<>>]

\* the store's answer to the query of the cursor: its documents, which the
\* stream then gives one at a time, or a failure, which the stream emits
Find(i) ==
    /\ reqs[i].pc = "find"
    /\ \E fails \in BOOLEAN :
        LET r == reqs[i]
            docs == IF fails THEN <<>> ELSE find(db[r.resource], r.arg)
        IN  Answer(i, "find", r.resource, r.id,
                   [err |-> fails, down |-> fails, n |-> Len(docs),
                    docs |-> db[r.resource]],
                   r.arg,
                   IF fails THEN streamError(r)
                   ELSE [r EXCEPT !.pc = "stream", !.cursor = docs], now)
    /\ UNCHANGED nextOid

\* 'data' of the stream on a list route: the document is written to the
\* response, the first one after the status line, if the pipe still leads
\* to the response
streamData(r, doc) ==
    IF r.connected
    THEN [r EXCEPT !.cursor = Tail(@), !.status = 200, !.sent = Append(@, doc)]
    ELSE [r EXCEPT !.cursor = Tail(@)]

\* 'end' of the stream on a list route: the cursor is closed and the
\* response ended
streamEnd(r) ==
    IF r.connected
    THEN [Respond(r, 200, r.sent) EXCEPT !.cur = "closed"]
    ELSE [r EXCEPT !.pc = "done", !.cur = "closed"]

\* the stream reads the next document of the cursor, which may take a
\* round-trip to the store that fails
StreamData(i) ==
    /\ reqs[i].pc = "stream"
    /\ reqs[i].route \in {"list", "nestedGet"}
    /\ reqs[i].cursor # <<>>
    /\ \E fails \in BOOLEAN :
        LET r == reqs[i]
        IN  IF fails
            THEN Answer(i, "getMore", r.resource, r.id, Failure(db[r.resource]),
                        r.arg, streamError(r), now)
            ELSE /\ reqs' = [reqs EXCEPT ![i] = streamData(r, Head(r.cursor))]
                 /\ UNCHANGED <<db, now, log, handle, server>>
    /\ UNCHANGED nextOid

\* the cursor is exhausted
StreamEnd(i) ==
    /\ reqs[i].pc = "stream"
    /\ reqs[i].route \in {"list", "nestedGet"}
    /\ reqs[i].cursor = <<>>
    /\ reqs' = [reqs EXCEPT ![i] = streamEnd(reqs[i])]
    /\ UNCHANGED <<db, now, nextOid, log, handle, server>>

\* res emits 'close' when the client goes away: pipe takes its listeners
\* off the stream before it and does nothing else.  A stream that the
\* response had paused is never resumed; one that flows goes on reading.
resClose(r, paused) ==
    IF paused THEN [r EXCEPT !.connected = FALSE, !.pc = "stalled"]
    ELSE [r EXCEPT !.connected = FALSE]

\* the client of a list request disconnects before the end of the stream
Disconnect(i) ==
    /\ reqs[i].pc \in {"find", "stream"}
    /\ reqs[i].route \in {"list", "nestedGet"}
    /\ reqs[i].connected
    /\ \E paused \in BOOLEAN :
          reqs' = [reqs EXCEPT ![i] = resClose(reqs[i], paused)]
    /\ UNCHANGED <<db, now, nextOid, log, handle, server>>

-----------------------------------------------------------------------------
(* GET /_collection *)

dbName == <<"i","n","h","o","u","s","e">>

\* s.indexOf(sub) for a sub that is not empty, from position from
RECURSIVE indexOfFrom(_, _, _)
indexOfFrom(s, sub, from) ==
    IF from + Len(sub) > Len(s) THEN -1
    ELSE IF SubSeq(s, from + 1, from + Len(sub)) = sub THEN from
    ELSE indexOfFrom(s, sub, from + 1)

indexOf(s, sub) == indexOfFrom(s, sub, 0)

\* collection.name.replace(new RegExp('^' + dbName + '\\.'), '')
stripDbName(name) ==
    LET prefix == dbName \o <<".">>
    IN  IF Len(name) >= Len(prefix) /\ SubSeq(name, 1, Len(prefix)) = prefix
        THEN SubSeq(name, Len(prefix) + 1, Len(name))
        ELSE name

\* a test that takes an underscore anywhere for the mark of a private name
IsPublicWithoutUnderscore(name) ==
    indexOf(name, <<"s","y","s","t","e","m",".">>) < 0
        /\ indexOf(name, <<"_">>) < 0

\* name.indexOf('system.') < 0 && name.indexOf('_') !== 0
IsPublic(name) ==
    indexOf(name, <<"s","y","s","t","e","m",".">>) < 0
        /\ indexOf(name, <<"_">>) # 0

\* collections.reduce(function (collections, collection) {...}, [])
RECURSIVE reduceCollections(_, _)
reduceCollections(collections, acc) ==
    IF collections = <<>> THEN acc
    ELSE LET name == stripDbName(Head(collections))
         IN  reduceCollections(Tail(collections),
                 IF IsPublic(name) THEN Append(acc, String(name)) ELSE acc)

\* GET /_collection
getCollection(r) == Call(r, "collectionNames", EmptyDoc)

\* the callback of db.collectionNames
collectionNamesCallback(r, err, collections) ==
    IF err THEN Respond(r, 500, <<>>)
    ELSE Respond([r EXCEPT !.collections = collections], 200,
                 reduceCollections(collections, <<>>))

GetCollection(in) ==
    /\ Len(reqs) < MaxRequests
    /\ Route(in.method, in.path) = "collections"
    /\ Receive(getCollection(Incoming(in)), now)

\* full names of collections, as the store reports them
NS_INDEXES == <<"i","n","h","o","u","s","e",".","s","y","s","t","e","m",".","i","n","d","e","x","e","s">>
NS_HOOK == <<"i","n","h","o","u","s","e",".","_","h","o","o","k">>
NS_WIDGETS == <<"i","n","h","o","u","s","e",".","w","i","d","g","e","t","s">>
NS_MY_THINGS == <<"i","n","h","o","u","s","e",".","m","y","_","t","h","i","n","g","s">>
NS_ECOSYSTEM == <<"i","n","h","o","u","s","e",".","e","c","o","s","y","s","t","e","m",".","x">>
NS_INHOUSE == <<"i","n","h","o","u","s","e",".","i","n","h","o","u","s","e",".","a">>
NS_BARE == <<"i","s","s","u","e","s">>

\* what the store may report: its collections in some order
Catalogs ==
    { <<>>,
      <<NS_INDEXES, NS_WIDGETS>>,
      <<NS_WIDGETS, NS_HOOK, NS_MY_THINGS>>,
      <<NS_MY_THINGS, NS_INDEXES, NS_WIDGETS, NS_HOOK>>,
      <<NS_ECOSYSTEM, NS_INHOUSE, NS_BARE>>,
      <<NS_BARE, NS_HOOK, NS_INHOUSE, NS_WIDGETS, NS_INDEXES>>,
      <<NS_HOOK, NS_INDEXES>>,
      <<NS_WIDGETS, NS_BARE, NS_MY_THINGS, NS_INHOUSE>> }

\* the store's answer to db.collectionNames, and the callback on it
CollectionNames(i) ==
    /\ reqs[i].pc = "collectionNames"
    /\ \E fails \in BOOLEAN, collections \in Catalogs :
        /\ fails => collections = <<>>
        /\ reqs' = [reqs EXCEPT
                      ![i] = collectionNamesCallback(reqs[i], fails, collections)]
        /\ log' = Append(log, [req |-> i, op |-> "collectionNames",
                               coll |-> <<>>, id |-> Undefined, err |-> fails,
                               down |-> fails, n |-> Len(collections),
                               doc |-> EmptyDoc])
    /\ UNCHANGED <<db, now, nextOid, handle, server>>

-----------------------------------------------------------------------------
(* GET /_collection/:resource *)

\* the nested object with these fields
ObjectOf(fields) == Object(CHOOSE n \in DOMAIN Objects : Objects[n] = fields)

\* a merge in which the value that came first stays
mergeValueKeepingFirst(a, b) == IF a.t = "undefined" THEN b ELSE a

\* _.merge of lodash: plain objects are merged key by key, and any other
\* value of the source, a Date and an ObjectID too, replaces what the
\* destination has; an undefined value of the source is skipped
RECURSIVE mergeValue(_, _)
mergeValue(a, b) ==
    IF a.t = "object" /\ b.t = "object"
    THEN LET x == Objects[a.n]
             y == Objects[b.n]
         IN  ObjectOf([f \in DOMAIN x \cup DOMAIN y |->
                          IF f \notin DOMAIN y THEN x[f]
                          ELSE IF f \notin DOMAIN x THEN y[f]
                          ELSE mergeValue(x[f], y[f])])
    ELSE IF b.t = "undefined" THEN a
    ELSE b

\* merged = _.merge({}, merged, doc)
merge(merged, doc) ==
    [f \in DOMAIN merged \cup DOMAIN doc |->
        IF f \notin DOMAIN doc THEN merged[f]
        ELSE IF f \notin DOMAIN merged THEN doc[f]
        ELSE mergeValue(merged[f], doc[f])]

\* the paths of the fields of an object, each with the type of its value
fromObject(obj) ==
    LET leaves == {<<f, obj[f].t>> :
                      f \in {h \in DOMAIN obj : obj[h].t # "object"}}
        inner == UNION {{<<f \o <<".">> \o g, Objects[obj[f].n][g].t>> :
                            g \in DOMAIN Objects[obj[f].n]} :
                        f \in {h \in DOMAIN obj : obj[h].t = "object"}}
        all == leaves \cup inner
    IN  [p \in {e[1] : e \in all} |->
            String(<<(CHOOSE e \in all : e[1] = p)[2]>>)]

F_count == <<"c","o","u","n","t">>

\* GET /_collection/:resource
getCollectionResource(r) == Call(r, "count", EmptyDoc)

\* a callback that loses the count
countCallbackWithoutCount(r, err, count) ==
    IF err THEN Respond(r, 500, <<>>)
    ELSE findCallback(Call(r, "find", EmptyDoc), FALSE)

\* the callback of req.collection.count: req.collection.find({}, ...),
\* whose callback starts the stream
countCallback(r, err, count) ==
    IF err THEN Respond(r, 500, <<>>)
    ELSE findCallback(Call([r EXCEPT !.count = count], "find", EmptyDoc), FALSE)

\* the transform of the stream
through(r, doc) == [r EXCEPT !.cursor = Tail(@), !.merged = merge(@, doc)]

\* 'finish' of the transform
finish(r) ==
    LET merged == Delete(r.merged, F_id)
    IN  [Respond(r, 200, <<(F_name :> String(r.resource))
                               @@ (F_count :> Number(r.count))>>)
            EXCEPT !.merged = merged, !.schema = fromObject(merged),
                   !.cur = "closed"]

GetCollectionResource(in) ==
    /\ Len(reqs) < MaxRequests
    /\ Route(in.method, in.path) = "schema"
    /\ Receive(getCollectionResource(paramResource(bodyParser(Incoming(in)),
                                                   in.path[2])), now)

\* the store's answer to req.collection.count, and the callback on it
Count(i) ==
    /\ reqs[i].pc = "count"
    /\ \E fails \in BOOLEAN :
        LET r == reqs[i]
            count == IF fails THEN 0 ELSE Len(db[r.resource])
        IN  Answer(i, "count", r.resource, r.id,
                   [err |-> fails, down |-> fails, n |-> count,
                    docs |-> db[r.resource]],
                   EmptyDoc, countCallback(r, fails, count), now)
    /\ UNCHANGED nextOid

\* the stream reads the next document of the cursor into the transform
Through(i) ==
    /\ reqs[i].pc = "stream"
    /\ reqs[i].route = "schema"
    /\ reqs[i].cursor # <<>>
    /\ \E fails \in BOOLEAN :
        LET r == reqs[i]
        IN  IF fails
            THEN Answer(i, "getMore", r.resource, r.id, Failure(db[r.resource]),
                        r.arg, streamError(r), now)
            ELSE /\ reqs' = [reqs EXCEPT ![i] = through(r, Head(r.cursor))]
                 /\ UNCHANGED <<db, now, log, handle, server>>
    /\ UNCHANGED nextOid

\* the cursor is exhausted and the transform finishes
Finish(i) ==
    /\ reqs[i].pc = "stream"
    /\ reqs[i].route = "schema"
    /\ reqs[i].cursor = <<>>
    /\ reqs' = [reqs EXCEPT ![i] = finish(reqs[i])]
    /\ UNCHANGED <<db, now, nextOid, log, handle, server>>

\* req.body.createdAt = new Date(); req.body.updatedAt = req.body.createdAt
Stamped(body, t) == Put(Put(body, F_createdAt, Date(t)), F_updatedAt, Date(t))

\* POST /:resource, at time t
postResource(r, t) ==
    IF NoBody(r) THEN Respond(r, 400, <<>>)
    ELSE Call(r, "insert", Stamped(r.body, t))

\* a handler that keeps the parent the body names
postNestedBodyFirst(r, t) ==
    IF NoBody(r) THEN Respond(r, 400, <<>>)
    ELSE Call(r, "insert",
              Stamped(IF r.parentField \in DOMAIN r.body THEN r.body
                      ELSE Put(r.body, r.parentField, r.id), t))

\* POST /:mainResource/:id/:resource, at time t
postNested(r, t) ==
    IF NoBody(r) THEN Respond(r, 400, <<>>)
    ELSE Call(r, "insert", Stamped(Put(r.body, r.parentField, r.id), t))

insertCallback(r, err, doc) ==
    IF err THEN Respond(r, 500, <<>>) ELSE Respond(r, 200, <<doc>>)

PostResource(in) ==
    /\ Len(reqs) < MaxRequests
    /\ Route(in.method, in.path) = "post"
    /\ \E t \in Clock :
        LET r == postResource(paramResource(bodyParser(Incoming(in)),
                                            in.path[1]), t)
        IN  /\ (t # now) => (r.pc = "insert")
            /\ Receive(r, t)

PostNested(in) ==
    /\ Len(reqs) < MaxRequests
    /\ Route(in.method, in.path) = "nestedPost"
    /\ \E t \in Clock :
        LET p == MainResourceIdResource(bodyParser(Incoming(in)))
            r == IF p.pc = "done" THEN p ELSE postNested(p, t)
        IN  /\ (t # now) => (r.pc = "insert")
            /\ Receive(r, t)

\* the store's answer to req.collection.insert, and the callback on it
Insert(i) ==
    /\ reqs[i].pc = "insert"
    /\ \E fails \in BOOLEAN :
        LET r == reqs[i]
            doc == WithId(r.arg, nextOid + 1)
            res == IF fails THEN Failure(db[r.resource])
                            ELSE insert(db[r.resource], doc)
        IN  Answer(i, "insert", r.resource, doc[F_id], res, doc,
                   insertCallback(r, res.err, doc), now)
    /\ nextOid' = IF F_id \in DOMAIN reqs[i].arg THEN nextOid ELSE nextOid + 1

\* a handler that leaves the _id of the body in place
putResourceIdKeepingId(r, t) ==
    IF NoBody(r) THEN Respond(r, 400, <<>>)
    ELSE Call(r, "update", Put(r.body, F_updatedAt, Date(t)))

\* PUT /:resource/:id, at time t
putResourceId(r, t) ==
    IF NoBody(r) THEN Respond(r, 400, <<>>)
    ELSE Call(r, "update", Put(Delete(r.body, F_id), F_updatedAt, Date(t)))

updateCallback(r, err) ==
    IF err THEN Respond(r, 500, <<>>) ELSE Respond(r, 204, <<>>)

PutResourceId(in) ==
    /\ Len(reqs) < MaxRequests
    /\ Route(in.method, in.path) = "put"
    /\ \E t \in Clock :
        LET p == ResourceId(bodyParser(Incoming(in)))
            r == IF p.pc = "done" THEN p
                 ELSE [putResourceId(p, t) EXCEPT !.at = Len(log)]
        IN  /\ (t # now) => (r.pc = "update")
            /\ Receive(r, t)

\* the store's answer to req.collection.update, and the callback on it
Update(i) ==
    /\ reqs[i].pc = "update"
    /\ \E fails \in BOOLEAN :
        LET r == reqs[i]
            res == IF fails THEN Failure(db[r.resource])
                            ELSE update(db[r.resource], r.id, r.arg)
        IN  Answer(i, "update", r.resource, r.id, res, r.arg,
                   updateCallback(r, res.err), now)
    /\ UNCHANGED nextOid

\* DELETE /:resource/:id
deleteResourceId(r) == Call(r, "remove", EmptyDoc)

\* a callback without the test of nrOfRemoved
removeCallbackNo404(r, err, nrOfRemoved) ==
    IF err THEN Respond(r, 500, <<>>) ELSE Respond(r, 204, <<>>)

removeCallback(r, err, nrOfRemoved) ==
    IF err THEN Respond(r, 500, <<>>)
    ELSE IF nrOfRemoved = 0 THEN Respond(r, 404, <<>>)
    ELSE Respond(r, 204, <<>>)

DeleteResourceId(in) ==
    /\ Len(reqs) < MaxRequests
    /\ Route(in.method, in.path) = "delete"
    /\ LET r == ResourceId(bodyParser(Incoming(in)))
       IN  Receive(IF r.pc = "done" THEN r ELSE deleteResourceId(r), now)

\* the store's answer to req.collection.remove, and the callback on it
Remove(i) ==
    /\ reqs[i].pc = "remove"
    /\ \E fails \in BOOLEAN :
        LET r == reqs[i]
            res == IF fails THEN Failure(db[r.resource])
                            ELSE remove(db[r.resource], r.id)
        IN  Answer(i, "remove", r.resource, r.id, res, EmptyDoc,
                   removeCallback(r, res.err, res.n), now)
    /\ UNCHANGED nextOid

-----------------------------------------------------------------------------
(* The requests of the model *)

ISSUES == <<"i","s","s","u","e","s">>

\* identifiers as they come in a path: of the two documents of the initial
\* store, of the next document created, 12 bytes, and two malformed ones
ID1 == generate(1)
ID2 == generate(2)
ID3 == generate(3)
TWELVE == [i \in 1..12 |-> "a"]
SHORT == <<"a", "b", "c">>
NONHEX == [i \in 1..24 |-> "g"]

Push(ref) ==
    (F_ref :> String(ref)) @@ (F_repository :> Object(1))
        @@ (F_head_commit :> Object(2)) @@ (F_pusher :> Object(3))

\* the payloads of the webhook: a ping, pushes to two branches, a push
\* without head_commit, and a payload with a ref and no repository
Ping == (<<"z","e","n">> :> String(<<"h","i">>))
Payloads ==
    { Ping,
      Push(REFS_HEADS_DEVELOP),
      Push(REFS_HEADS_MASTER),
      Delete(Push(REFS_HEADS_MASTER), F_head_commit),
      (F_ref :> String(REFS_HEADS_MASTER)) }

\* the bodies of the write requests
NameBar == (F_name :> String(BAR))
IdNameBar == (F_id :> String(ID2)) @@ (F_name :> String(BAR))
Attempted == (F_nrOfAttempts :> Number(1)) @@ (F_buildAt :> Date(0))

Get_(path) == Request("GET", path, FALSE, EmptyDoc, EmptyDoc)
Delete_(path) == Request("DELETE", path, FALSE, EmptyDoc, EmptyDoc)
Put_(path, body) == Request("PUT", path, TRUE, body, EmptyDoc)
Post_(path, body) == Request("POST", path, TRUE, body, EmptyDoc)
\* a write request without a body
Bare(method, path) == Request(method, path, FALSE, EmptyDoc, EmptyDoc)

\* the requests to the webhook
HookRequests ==
    {Post_(<<HOOK>>, b) : b \in Payloads}
        \cup {Post_(<<HOOK, PROD>>, Push(REFS_HEADS_MASTER))}

\* the requests to the routes of one document, with the identifier of a
\* document, of the next document created, and one that no document has
ResourceRequests ==
    {Get_(<<WIDGETS, ID1>>), Get_(<<WIDGETS, TWELVE>>),
     Delete_(<<WIDGETS, ID1>>), Delete_(<<WIDGETS, TWELVE>>),
     Put_(<<WIDGETS, ID1>>, NameBar), Put_(<<WIDGETS, ID1>>, IdNameBar),
     Put_(<<WIDGETS, TWELVE>>, NameBar),
     Post_(<<WIDGETS>>, NameBar),
     Put_(<<WIDGETS, ID3>>, NameBar), Get_(<<WIDGETS, ID3>>)}

\* the requests to every route with an identifier or a body: well-formed
\* and malformed identifiers, with and without a body
ParamRequests ==
    {Get_(<<WIDGETS, ID1>>), Get_(<<WIDGETS, NONHEX>>),
     Delete_(<<WIDGETS, TWELVE>>), Delete_(<<WIDGETS, SHORT>>),
     Put_(<<WIDGETS, ID1>>, NameBar), Put_(<<WIDGETS, NONHEX>>, NameBar),
     Bare("PUT", <<WIDGETS, ID1>>),
     Post_(<<WIDGETS>>, NameBar), Bare("POST", <<WIDGETS>>),
     Get_(<<WIDGETS, ID1, ISSUES>>), Get_(<<WIDGETS, NONHEX, ISSUES>>),
     Post_(<<WIDGETS, ID1, ISSUES>>, NameBar),
     Post_(<<WIDGETS, SHORT, ISSUES>>, NameBar),
     Bare("POST", <<WIDGETS, ID1, ISSUES>>)}

\* a path segment that camelize turns into buildqueue
BUILDQUEUE_ == BUILDQUEUE \o <<"-">>

\* the requests that reach for the build queue, and some that do not
QueueRequests ==
    {Post_(<<HOOK>>, b) : b \in {Ping, Push(REFS_HEADS_DEVELOP),
                                 Push(REFS_HEADS_MASTER)}}
    \cup {Post_(<<BUILDQUEUE>>, Attempted), Put_(<<BUILDQUEUE, ID2>>, Attempted),
          Delete_(<<BUILDQUEUE_, ID2>>)}
    \cup {Post_(<<WIDGETS>>, NameBar), Put_(<<WIDGETS, ID1>>, NameBar),
          Delete_(<<WIDGETS, ID1>>)}

GetQ(path, query) == Request("GET", path, FALSE, EmptyDoc, query)

MY_REPO == <<"m","y","-","r","e","p","o">>

\* a query and a body that name the parent themselves
OfWidget1 == (F_widgetsId :> String(ID1))
NameBarOfWidget1 == (F_widgetsId :> String(ID1)) @@ (F_name :> String(BAR))

\* the requests to the nested routes: parents with and without children,
\* a parent that does not exist, a query and a body that name another
\* parent
NestedRequests ==
    {Get_(<<WIDGETS, ID2, ISSUES>>), GetQ(<<WIDGETS, ID2, ISSUES>>, OfWidget1),
     Get_(<<WIDGETS, ID3, ISSUES>>), Get_(<<MY_REPO, ID2, ISSUES>>),
     Post_(<<WIDGETS, ID3, ISSUES>>, NameBarOfWidget1),
     Post_(<<MY_REPO, ID2, ISSUES>>, NameBar)}

THINGS == <<"t","h","i","n","g","s">>
F_a == <<"a">>
F_b == <<"b">>
F_o == <<"o">>
ID10 == generate(10)
ID11 == generate(11)

\* the introspection of a collection, and requests that write to it in
\* the meantime
SchemaRequests ==
    {Get_(<<COLLECTION, THINGS>>),
     Post_(<<THINGS>>, (F_a :> Null) @@ (F_o :> Object(3))),
     Delete_(<<THINGS, ID11>>)}

\* the list requests
StreamRequests ==
    {Get_(<<ISSUES>>), GetQ(<<ISSUES>>, NameBar),
     Get_(<<WIDGETS, ID2, ISSUES>>), Get_(<<THINGS>>)}

Requests ==
    HookRequests \cup ResourceRequests \cup ParamRequests \cup QueueRequests
        \cup NestedRequests \cup SchemaRequests \cup StreamRequests

\* the collections of the database: every name a request can reach
Collections ==
    {HOOK, BUILDQUEUE, WIDGETS}
        \cup {camelize(in.path[1]) : in \in Requests}
        \cup {camelize(in.path[Len(in.path)]) : in \in Requests}

-----------------------------------------------------------------------------
(* The system *)

\* a database that earlier requests have filled: a build job created at
\* time 0, and a widget created at time 1, the last reading of the clock
Widget1 ==
    (F_id :> Oid(ID1)) @@ (F_name :> String(FOO))
        @@ (F_createdAt :> Date(1)) @@ (F_updatedAt :> Date(1))

Job2 ==
    Put(Build(Post_(<<HOOK>>, Push(REFS_HEADS_MASTER)), 0), F_id, Oid(ID2))

\* issues of earlier requests: of parent 2, of another parent, and one
\* whose parent field is a string
Issues ==
    << (F_id :> Oid(generate(13))) @@ (F_widgetsId :> Oid(ID2))
          @@ (F_myRepoId :> Oid(ID10)) @@ (F_name :> String(FOO)),
       (F_id :> Oid(generate(14))) @@ (F_widgetsId :> Oid(ID10))
          @@ (F_name :> String(BAR)),
       (F_id :> Oid(generate(15))) @@ (F_widgetsId :> String(ID1)) >>

\* things of earlier requests, whose field a changes its type
Things ==
    << (F_id :> Oid(ID10)) @@ (F_a :> Number(1)) @@ (F_o :> Object(2)),
       (F_id :> Oid(ID11)) @@ (F_a :> String(<<"x">>)) @@ (F_b :> Number(2)) >>

InitialDb ==
    [c \in Collections |->
        CASE c = WIDGETS -> <<Widget1>>
          [] c = THINGS -> Things
          [] c = BUILDQUEUE -> <<Job2>>
          [] c = ISSUES -> Issues
          [] OTHER -> <<>>]

Init ==
    /\ db = InitialDb
    /\ reqs = <<>>
    /\ now = 1
    /\ nextOid = 2
    /\ log = <<>>
    /\ handle = 0
    /\ server = "connecting"

\* the webhook alone
NextHook ==
    \/ \E err \in BOOLEAN : Connect(err)
    \/ \E in \in HookRequests : Hook(in)
    \/ \E i \in DOMAIN reqs : HooksInsert(i)
    \/ \E i \in DOMAIN reqs : BuildqueueInsert(i)

SpecHook == Init /\ [][NextHook]_vars

\* the webhook and the generic routes that write
NextQueue ==
    \/ \E err \in BOOLEAN : Connect(err)
    \/ \E in \in QueueRequests : Hook(in)
    \/ \E in \in QueueRequests : PostResource(in)
    \/ \E in \in QueueRequests : PutResourceId(in)
    \/ \E in \in QueueRequests : DeleteResourceId(in)
    \/ \E i \in DOMAIN reqs : HooksInsert(i)
    \/ \E i \in DOMAIN reqs : BuildqueueInsert(i)
    \/ \E i \in DOMAIN reqs : Insert(i)
    \/ \E i \in DOMAIN reqs : Update(i)
    \/ \E i \in DOMAIN reqs : Remove(i)

SpecQueue == Init /\ [][NextQueue]_vars

\* the routes of one document
NextResource ==
    \/ \E err \in BOOLEAN : Connect(err)
    \/ \E in \in ResourceRequests : GetResourceId(in)
    \/ \E in \in ResourceRequests : PostResource(in)
    \/ \E in \in ResourceRequests : PutResourceId(in)
    \/ \E in \in ResourceRequests : DeleteResourceId(in)
    \/ \E i \in DOMAIN reqs : FindOne(i)
    \/ \E i \in DOMAIN reqs : Insert(i)
    \/ \E i \in DOMAIN reqs : Update(i)
    \/ \E i \in DOMAIN reqs : Remove(i)

SpecResource == Init /\ [][NextResource]_vars

\* every route with an identifier or a body
NextParams ==
    \/ \E err \in BOOLEAN : Connect(err)
    \/ \E in \in ParamRequests : GetResourceId(in)
    \/ \E in \in ParamRequests : GetNested(in)
    \/ \E in \in ParamRequests : PostResource(in)
    \/ \E in \in ParamRequests : PostNested(in)
    \/ \E in \in ParamRequests : PutResourceId(in)
    \/ \E in \in ParamRequests : DeleteResourceId(in)
    \/ \E i \in DOMAIN reqs : FindOne(i)
    \/ \E i \in DOMAIN reqs : Find(i)
    \/ \E i \in DOMAIN reqs : StreamData(i)
    \/ \E i \in DOMAIN reqs : StreamEnd(i)
    \/ \E i \in DOMAIN reqs : Insert(i)
    \/ \E i \in DOMAIN reqs : Update(i)
    \/ \E i \in DOMAIN reqs : Remove(i)

SpecParams == Init /\ [][NextParams]_vars

\* the nested routes and the list
NextNested ==
    \/ \E err \in BOOLEAN : Connect(err)
    \/ \E in \in NestedRequests : GetNested(in)
    \/ \E in \in NestedRequests : PostNested(in)
    \/ \E i \in DOMAIN reqs : Find(i)
    \/ \E i \in DOMAIN reqs : StreamData(i)
    \/ \E i \in DOMAIN reqs : StreamEnd(i)
    \/ \E i \in DOMAIN reqs : Insert(i)

SpecNested == Init /\ [][NextNested]_vars

\* the list of the collections
NextCollections ==
    \/ \E err \in BOOLEAN : Connect(err)
    \/ GetCollection(Get_(<<COLLECTION>>))
    \/ \E i \in DOMAIN reqs : CollectionNames(i)

SpecCollections == Init /\ [][NextCollections]_vars

\* the list routes and their clients
NextStream ==
    \/ \E err \in BOOLEAN : Connect(err)
    \/ \E in \in StreamRequests : GetResource(in)
    \/ \E in \in StreamRequests : GetNested(in)
    \/ \E i \in DOMAIN reqs : Find(i)
    \/ \E i \in DOMAIN reqs : StreamData(i)
    \/ \E i \in DOMAIN reqs : StreamEnd(i)
    \/ \E i \in DOMAIN reqs : Disconnect(i)

SpecStream == Init /\ [][NextStream]_vars

\* the introspection of a collection and its writers
NextSchema ==
    \/ \E err \in BOOLEAN : Connect(err)
    \/ \E in \in SchemaRequests : GetCollectionResource(in)
    \/ \E in \in SchemaRequests : PostResource(in)
    \/ \E in \in SchemaRequests : DeleteResourceId(in)
    \/ \E i \in DOMAIN reqs : Count(i)
    \/ \E i \in DOMAIN reqs : Find(i)
    \/ \E i \in DOMAIN reqs : Through(i)
    \/ \E i \in DOMAIN reqs : Finish(i)
    \/ \E i \in DOMAIN reqs : Insert(i)
    \/ \E i \in DOMAIN reqs : Remove(i)

SpecSchema == Init /\ [][NextSchema]_vars

-----------------------------------------------------------------------------
(* What the log says of request i *)

\* the store operations answered for request i, as positions of the log
Entries(i) == {k \in DOMAIN log : log[k].req = i}

\* the inserts into collection coll applied for request i
Inserted(i, coll) ==
    {k \in Entries(i) : log[k].op = "insert" /\ log[k].coll = coll /\ log[k].n = 1}

\* the inserts into collection coll that failed for request i
FailedInsert(i, coll) ==
    {k \in Entries(i) : log[k].op = "insert" /\ log[k].coll = coll /\ log[k].err}

\* request i waits for no callback
Settled(i) == reqs[i].pc \in {"done", "threw"}

HookIds == {i \in DOMAIN reqs : reqs[i].route = "hook"}

\* the payload is a push to the master branch
Qualifies(i) ==
    /\ F_ref \in DOMAIN reqs[i].body
    /\ reqs[i].body[F_ref] = String(REFS_HEADS_MASTER)

\* the positions of step in the trace of request i
StepsAt(i, step) == {k \in DOMAIN reqs[i].trace : reqs[i].trace[k] = step}

-----------------------------------------------------------------------------
(* Claims on the webhook, checked under SpecHook *)

\* C1: a webhook request inserts a build job only after its payload was
\* recorded and only if its ref is exactly refs/heads/master; a payload with
\* no ref or with another ref adds no build job and, once recorded, is
\* answered 204 (the failed record insert is answered 500).
C1_JobOnlyForRecordedMaster ==
    \A i \in HookIds :
        /\ \A k \in Inserted(i, BUILDQUEUE) :
              /\ Qualifies(i)
              /\ \E j \in Inserted(i, HOOK) : j < k
        /\ ~Qualifies(i) =>
              /\ Inserted(i, BUILDQUEUE) = {}
              /\ StepsAt(i, "buildqueue.insert") = {}
              /\ Settled(i) =>
                    reqs[i].status = IF Inserted(i, HOOK) # {} THEN 204 ELSE 500

C1_Witness ==
    \E i, j \in HookIds :
        /\ ~Qualifies(i) /\ reqs[i].status = 204
        /\ F_ref \in DOMAIN reqs[i].body
        /\ Qualifies(j) /\ Inserted(j, BUILDQUEUE) # {}

\* C2: every webhook request first attempts the insert of the raw payload
\* into _hook, before the ref is examined and before any build-job insert;
\* if that insert fails the request is answered 500 and no build job is
\* inserted, whatever the ref.
C2_RecordFirst ==
    \A i \in HookIds :
        /\ reqs[i].trace[1] = "hooks.insert"
        /\ StepsAt(i, "hooks.insert") = {1}
        /\ reqs[i].arg = reqs[i].body \/ Entries(i) # {}
        /\ \A k \in Entries(i) :
              \E j \in Entries(i) :
                  /\ j <= k
                  /\ log[j].op = "insert" /\ log[j].coll = HOOK
                  /\ Delete(log[j].doc, F_id) = reqs[i].body
        /\ (StepsAt(i, "ref") # {}) => Inserted(i, HOOK) # {}
        /\ FailedInsert(i, HOOK) # {} =>
              /\ reqs[i].status = 500
              /\ reqs[i].pc = "done"
              /\ StepsAt(i, "ref") = {}
              /\ StepsAt(i, "buildqueue.insert") = {}
              /\ Inserted(i, BUILDQUEUE) = {}

C2_Witness ==
    \E i \in HookIds :
        /\ Qualifies(i)
        /\ FailedInsert(i, HOOK) # {}
        /\ reqs[i].status = 500

\* C3: a webhook request with ref refs/heads/master whose record insert and
\* build-job insert both succeed is answered 201 and adds exactly one build
\* job, with buildAt null and nrOfAttempts 0; no 201 is sent unless the
\* build job has been inserted.
C3_Created ==
    /\ \A i \in HookIds :
          /\ (Qualifies(i) /\ Inserted(i, HOOK) # {} /\ Inserted(i, BUILDQUEUE) # {}) =>
                /\ reqs[i].status = 201
                /\ reqs[i].responses = 1
                /\ Cardinality(Inserted(i, BUILDQUEUE)) = 1
                /\ \A k \in Inserted(i, BUILDQUEUE) :
                      /\ Get(log[k].doc, F_buildAt) = Null
                      /\ Get(log[k].doc, F_nrOfAttempts) = Number(0)
                      /\ \E n \in DOMAIN db[BUILDQUEUE] :
                            db[BUILDQUEUE][n] = log[k].doc
          /\ reqs[i].status = 201 => Inserted(i, BUILDQUEUE) # {}
    /\ Len(db[BUILDQUEUE]) =
          Len(InitialDb[BUILDQUEUE])
              + Cardinality({i \in HookIds : Inserted(i, BUILDQUEUE) # {}})

C3_Witness ==
    \E i \in HookIds :
        /\ Qualifies(i)
        /\ Inserted(i, BUILDQUEUE) # {}
        /\ reqs[i].status = 201

\* C4: when the build-job insert fails after the record insert succeeded,
\* the request is answered 500, the webhook record stays stored and no build
\* job exists for the event: the record is not rolled back and the
\* build-job insert is not retried.
C4_NoRollbackNoRetry ==
    \A i \in HookIds :
        (Inserted(i, HOOK) # {} /\ FailedInsert(i, BUILDQUEUE) # {}) =>
            /\ reqs[i].status = 500
            /\ reqs[i].pc = "done"
            /\ \A k \in Inserted(i, HOOK) :
                  \E n \in DOMAIN db[HOOK] : db[HOOK][n] = log[k].doc
            /\ Inserted(i, BUILDQUEUE) = {}
            /\ \A n \in DOMAIN db[BUILDQUEUE] :
                  \A k \in FailedInsert(i, BUILDQUEUE) :
                      db[BUILDQUEUE][n] # log[k].doc
            /\ Cardinality(StepsAt(i, "buildqueue.insert")) = 1
            /\ Cardinality(Entries(i)) = 2

C4_Witness ==
    \E i \in HookIds :
        /\ Inserted(i, HOOK) # {}
        /\ FailedInsert(i, BUILDQUEUE) # {}
        /\ reqs[i].status = 500

\* C5: every webhook request, whatever fields its payload has or lacks,
\* ends with exactly one response, and that response is 201, 204 or 500:
\* a request that waits for no callback has been answered.
C5_AlwaysAnswered ==
    \A i \in HookIds :
        /\ reqs[i].responses <= 1
        /\ Settled(i) =>
              /\ reqs[i].responses = 1
              /\ reqs[i].status \in {201, 204, 500}

-----------------------------------------------------------------------------
(* Claims on the build queue, checked under SpecQueue *)

\* the operations that changed the build queue, as positions of the log
QueueChanges ==
    {k \in DOMAIN log :
        /\ log[k].coll = BUILDQUEUE
        /\ log[k].op \in {"insert", "update", "remove"}
        /\ log[k].n = 1}

\* the change is the webhook adding a new job for a push to master
IngestorAdds(k) ==
    /\ reqs[log[k].req].route = "hook"
    /\ Qualifies(log[k].req)
    /\ log[k].op = "insert"
    /\ Get(log[k].doc, F_buildAt) = Null
    /\ Get(log[k].doc, F_nrOfAttempts) = Number(0)

\* the jobs the webhook has added, in order
JobsAdded ==
    LET added == SelectSeq(log, LAMBDA e :
                     e.coll = BUILDQUEUE /\ e.op = "insert" /\ e.n = 1
                         /\ reqs[e.req].route = "hook")
    IN  [n \in DOMAIN added |-> added[n].doc]

\* the change is made by a generic route whose :resource is the build queue
GenericOnQueue(k) ==
    LET r == reqs[log[k].req]
    IN  /\ r.route \in {"post", "put", "delete"}
        /\ r.path[1] \in {BUILDQUEUE, BUILDQUEUE_}

-----------------------------------------------------------------------------
(* Claims on the routes of one document, checked under SpecResource *)

\* a document of docs has the identifier id
Has(docs, id) ==
    \E n \in DOMAIN docs : F_id \in DOMAIN docs[n] /\ docs[n][F_id] = id

\* the documents of docs with another identifier than id
Without(docs, id) ==
    SelectSeq(docs, LAMBDA d : ~(F_id \in DOMAIN d /\ d[F_id] = id))

\* operation m of the log changed the collection coll
Changed(m, coll) ==
    /\ log[m].coll = coll
    /\ log[m].op \in {"insert", "update", "remove"}
    /\ log[m].n = 1

\* operation k of the log is a findOne of the document that operation j
\* wrote, with no change of the collection in between and no store failure
ReadsAfter(j, k) ==
    /\ j < k
    /\ log[k].op = "findOne"
    /\ log[k].coll = log[j].coll
    /\ log[k].id = log[j].id
    /\ ~log[k].down
    /\ \A m \in (j + 1)..(k - 1) : ~Changed(m, log[j].coll)

\* C7, the step of the store's answer to a DELETE: at most one document is
\* removed, the one with the identifier, and every other document and
\* collection is left as it was; the answer is 204 when a document had the
\* identifier and 404 when none had (500 when the store failed).
C7_RemoveStep ==
    \A i \in DOMAIN reqs :
        (reqs[i].pc = "remove" /\ reqs'[i].pc # "remove") =>
            LET c == reqs[i].resource
                id == reqs[i].id
                e == log'[Len(log')]
            IN  /\ \A o \in DOMAIN db : o # c => db'[o] = db[o]
                /\ Without(db'[c], id) = Without(db[c], id)
                /\ Len(db'[c]) >= Len(db[c]) - 1
                /\ reqs'[i].status =
                      IF e.down THEN 500 ELSE IF Has(db[c], id) THEN 204 ELSE 404
                /\ reqs'[i].status = 204 =>
                      ~Has(db'[c], id) /\ Len(db'[c]) = Len(db[c]) - 1
                /\ reqs'[i].status # 204 => db'[c] = db[c]

\* C7, after the DELETE: a GET of an identifier whose DELETE was answered
\* 204 is answered 404, as long as nothing is inserted in between.
C7_GoneAfterDelete ==
    \A j, k \in DOMAIN log :
        (/\ log[j].op = "remove"
         /\ reqs[log[j].req].status = 204
         /\ ReadsAfter(j, k)) =>
            reqs[log[k].req].status = 404

\* C7: DELETE /:resource/:id removes at most one document, is answered 204
\* when a document with the identifier existed and was removed and 404 when
\* none existed, leaves every other document unchanged, and a GET of the
\* identifier after a 204 is answered 404 while nothing is inserted.
C7_Delete == []C7_GoneAfterDelete /\ [][C7_RemoveStep]_vars

C7_Witness ==
    \E j, k \in DOMAIN log :
        /\ log[j].op = "remove"
        /\ reqs[log[j].req].status = 204
        /\ ReadsAfter(j, k)
        /\ reqs[log[k].req].status = 404

\* the document (coll, id) is in the store after the first n operations
ExistedAt(coll, id, n) ==
    \E m \in 0..n :
        /\ IF m = 0 THEN Has(InitialDb[coll], id)
           ELSE /\ log[m].op = "insert" /\ log[m].coll = coll
                /\ log[m].id = id /\ log[m].n = 1
        /\ \A x \in (m + 1)..n :
              ~(log[x].op = "remove" /\ log[x].coll = coll
                    /\ log[x].id = id /\ log[x].n = 1)

\* the documents (coll, id) as they were created
Creations(coll, id) ==
    {log[m].doc : m \in {x \in DOMAIN log :
        log[x].op = "insert" /\ log[x].coll = coll /\ log[x].id = id
            /\ log[x].n = 1}}
    \cup {InitialDb[coll][n] : n \in {x \in DOMAIN InitialDb[coll] :
        Get(InitialDb[coll][x], F_id) = id}}

\* the PUT requests for a document that existed when they arrived
PutsOnExisting ==
    {i \in DOMAIN reqs :
        /\ reqs[i].route = "put"
        /\ reqs[i].id # Undefined
        /\ ExistedAt(reqs[i].resource, reqs[i].id, reqs[i].at)}

\* the document d carries the fields of the body of PUT request p under
\* the identifier of the path
CarriesBody(d, p) ==
    /\ Get(d, F_id) = p.id
    /\ DOMAIN d = (DOMAIN p.body \ {F_id}) \cup {F_id, F_updatedAt}
    /\ \A f \in DOMAIN p.body \ {F_id, F_updatedAt} : d[f] = p.body[f]
    /\ d[F_updatedAt].t = "Date"

\* every PUT on an existing document is answered 204 unless the store
\* failed, and a GET that follows it returns what it wrote
PutThenGet(Later(_, _)) ==
    /\ \A i \in PutsOnExisting :
          \A k \in Entries(i) : ~log[k].down => reqs[i].status = 204
    /\ \A j, k \in DOMAIN log :
          (/\ log[j].op = "update" /\ log[j].n = 1
           /\ log[j].req \in PutsOnExisting
           /\ ReadsAfter(j, k)) =>
              LET g == reqs[log[k].req]
              IN  /\ g.status = 200
                  /\ Len(g.sent) = 1
                  /\ CarriesBody(g.sent[1], reqs[log[j].req])
                  /\ \A c \in Creations(log[j].coll, log[j].id) :
                        Later(g.sent[1][F_updatedAt].n, Get(c, F_createdAt).n)

\* C8 as stated: PUT on an existing document is answered 204, and a
\* following GET returns the fields of the PUT body under the original
\* identifier, also when the body carried another _id, with updatedAt
\* strictly greater than the createdAt given at creation.
C8_PutThenGetStrictlyLater == PutThenGet(LAMBDA u, c : u > c)

\* C8 as amended: the same, with updatedAt not earlier than the createdAt
\* given at creation; the two are equal when the PUT reads the clock in
\* the millisecond of the creation.
C8_PutThenGetNotEarlier == PutThenGet(LAMBDA u, c : u >= c)

C8_Witness ==
    \E j, k \in DOMAIN log :
        /\ log[j].op = "update" /\ log[j].n = 1
        /\ log[j].req \in PutsOnExisting
        /\ F_id \in DOMAIN reqs[log[j].req].body
        /\ ReadsAfter(j, k)
        /\ reqs[log[k].req].status = 200

-----------------------------------------------------------------------------
(* Claims on identifiers and bodies, checked under SpecParams *)

HexChars ==
    {"0","1","2","3","4","5","6","7","8","9",
     "a","b","c","d","e","f","A","B","C","D","E","F"}

\* 12 bytes, or 24 hexadecimal characters
WellFormed(id) ==
    \/ Len(id) = 12
    \/ Len(id) = 24 /\ \A n \in DOMAIN id : id[n] \in HexChars

\* the requests to a route with :id whose identifier is malformed
Malformed ==
    {i \in DOMAIN reqs :
        /\ reqs[i].route \in {"get", "put", "delete", "nestedGet", "nestedPost"}
        /\ ~WellFormed(reqs[i].path[2])}

\* C9: on every route with an :id parameter, a request whose identifier is
\* neither 12 bytes nor 24 hexadecimal characters is answered 400, its
\* route handler never runs and no store operation is issued for it.
C9_MalformedId ==
    \A i \in Malformed :
        /\ reqs[i].status = 400
        /\ reqs[i].responses = 1
        /\ reqs[i].pc = "done"
        /\ reqs[i].trace = <<>>
        /\ Entries(i) = {}

C9_Witness ==
    \E i, j \in Malformed :
        /\ reqs[i].route = "put" /\ reqs[i].status = 400
        /\ reqs[j].route = "nestedGet" /\ reqs[j].status = 400

\* the write requests that arrived without a body
Bodiless ==
    {i \in DOMAIN reqs :
        reqs[i].route \in {"post", "nestedPost", "put"} /\ ~reqs[i].hasBody}

\* C10: a write request (POST /:resource, POST /:mainResource/:id/:resource,
\* PUT /:resource/:id) that arrives with no body is answered 400 and
\* writes nothing to the store; here even a 500 counts when the store
\* failed.
C10_NoBodyRejected ==
    \A i \in Bodiless :
        /\ \A k \in Entries(i) : log[k].down
        /\ Settled(i) => reqs[i].status \in {400, 500}


-----------------------------------------------------------------------------
(* Claims on the startup *)

\* C16, the states: the server listens only with the handle assigned, the
\* handle is assigned at most once, and every request got the assigned
\* handle as its req.db.
C16_HandleSet ==
    /\ handle <= 1
    /\ server = "listening" => handle = 1
    /\ \A i \in DOMAIN reqs : reqs[i].db = 1

\* C16, the steps: the handle is assigned by the successful connection and
\* by nothing else, and the step that assigns it is the one that starts
\* the server.
C16_AssignedByConnect ==
    /\ handle # 0 => handle' = handle
    /\ handle' # handle => server = "connecting" /\ server' = "listening"
    /\ server' = "listening" /\ server # "listening" => handle' = handle + 1

\* C16: the shared store handle is assigned exactly once, when the startup
\* connection succeeds, and the server starts accepting requests only after
\* that assignment: no request handler runs with an unset handle, and the
\* handle is never reassigned.
C16_HandleSetOnce == []C16_HandleSet /\ [][C16_AssignedByConnect]_vars

C16_Witness ==
    /\ server = "listening"
    /\ handle = 1
    /\ \E i \in DOMAIN reqs : reqs[i].db = 1 /\ reqs[i].status = 200


-----------------------------------------------------------------------------
(* Claims on the nested routes, checked under SpecNested *)

\* camelCase(mainResource) + 'Id' for the main resources of the requests
ParentFieldOf(i) ==
    IF reqs[i].path[1] = WIDGETS THEN F_widgetsId ELSE F_myRepoId

\* the parent identifier of the path, which comes as 24 hexadecimal digits
ParentIdOf(i) == Oid(reqs[i].path[2])

NestedGets == {i \in DOMAIN reqs : reqs[i].route = "nestedGet"}

\* C11: GET /:mainResource/:id/:resource returns only documents whose
\* parent field, camelCase(mainResource) + 'Id', equals the identifier of
\* the path, also when the query string gives that field another value.
C11_OnlyChildrenOfParent ==
    \A i \in NestedGets :
        \A n \in DOMAIN reqs[i].sent :
            Get(reqs[i].sent[n], ParentFieldOf(i)) = ParentIdOf(i)

C11_Witness ==
    \E i \in NestedGets :
        /\ ParentFieldOf(i) \in DOMAIN reqs[i].query
        /\ reqs[i].query[ParentFieldOf(i)] # ParentIdOf(i)
        /\ reqs[i].pc = "done" /\ reqs[i].status = 200
        /\ reqs[i].sent # <<>>
        /\ Len(reqs[i].sent) < Len(db[ISSUES])


\* the inserts the store answered for the nested POST requests
NestedInserts ==
    {k \in DOMAIN log :
        log[k].op = "insert" /\ reqs[log[k].req].route = "nestedPost"}

\* request g is a nested GET without a query of its own, whose query the
\* store answered after insert k, with the inserted document left as it
\* was in between, and whose response is complete
ListsAfter(k, g) ==
    /\ g \in NestedGets
    /\ reqs[g].query = EmptyDoc
    /\ reqs[g].resource = log[k].coll
    /\ reqs[g].pc = "done" /\ reqs[g].status = 200
    /\ \E j \in Entries(g) :
          /\ log[j].op = "find" /\ k < j
          /\ \A m \in (k + 1)..(j - 1) :
                ~(log[m].op \in {"update", "remove"} /\ log[m].id = log[k].id
                     /\ log[m].coll = log[k].coll /\ log[m].n = 1)

\* the response of request g has the document with identifier id
Returns(g, id) ==
    \E n \in DOMAIN reqs[g].sent : Get(reqs[g].sent[n], F_id) = id

\* C17: a document created with POST /:mainResource/:id/:resource is stored
\* with its parent field equal to the identifier of the path, whatever the
\* body gave for that field; a later GET /:mainResource/:id/:resource
\* returns it for that parent and for no other; and the create succeeds
\* (unless the store fails) whether or not the parent exists.
C17_CreatedUnderParent ==
    \A k \in NestedInserts :
        LET p == log[k].req
        IN  /\ Get(log[k].doc, ParentFieldOf(p)) = ParentIdOf(p)
            /\ ~log[k].down =>
                  /\ log[k].n = 1
                  /\ Settled(p) => reqs[p].status = 200
            /\ log[k].n = 1 =>
                  \A g \in DOMAIN reqs :
                      ListsAfter(k, g) =>
                          (Returns(g, log[k].id) <=>
                              /\ ParentFieldOf(g) = ParentFieldOf(p)
                              /\ ParentIdOf(g) = ParentIdOf(p))

C17_Witness ==
    \E k \in NestedInserts :
        LET p == log[k].req
        IN  /\ ParentFieldOf(p) \in DOMAIN reqs[p].body
            /\ reqs[p].body[ParentFieldOf(p)] # ParentIdOf(p)
            /\ Matching(db[WIDGETS], ParentIdOf(p)) = {}
            /\ reqs[p].status = 200
            /\ \E g \in DOMAIN reqs : ListsAfter(k, g) /\ Returns(g, log[k].id)


-----------------------------------------------------------------------------
(* Claims on GET /_collection, checked under SpecCollections *)

\* the name without the prefix of the database
Stripped(name) ==
    IF Len(name) >= 8 /\ SubSeq(name, 1, 8) = <<"i","n","h","o","u","s","e",".">>
    THEN SubSeq(name, 9, Len(name))
    ELSE name

\* the name contains 'system.' or begins with '_'
Reserved(name) ==
    \/ \E k \in 1..(Len(name) - 6) :
          SubSeq(name, k, k + 6) = <<"s","y","s","t","e","m",".">>
    \/ name # <<>> /\ name[1] = "_"

\* the answered requests for the list of collections
Listings ==
    {i \in DOMAIN reqs : reqs[i].route = "collections" /\ reqs[i].status = 200}

\* C12: GET /_collection returns, in the order the store reports them,
\* exactly the collection names, without the prefix of the database, that
\* neither contain 'system.' nor begin with '_': no reserved name is in the
\* result and no other name is dropped.
C12_PublicNamesInOrder ==
    \A i \in Listings :
        LET kept == SelectSeq(reqs[i].collections,
                              LAMBDA c : ~Reserved(Stripped(c)))
        IN  /\ reqs[i].sent = [n \in DOMAIN kept |-> String(Stripped(kept[n]))]
            /\ \A n \in DOMAIN reqs[i].sent : ~Reserved(reqs[i].sent[n].s)

C12_Witness ==
    \E i \in Listings :
        /\ \E n \in DOMAIN reqs[i].collections :
              Stripped(reqs[i].collections[n])[1] = "_"
        /\ \E n \in DOMAIN reqs[i].collections :
              reqs[i].collections[n] = NS_INDEXES
        /\ Len(reqs[i].sent) >= 2


-----------------------------------------------------------------------------
(* Claims on GET /_collection/:resource, checked under SpecSchema *)

\* the answered introspections
Introspections ==
    {i \in DOMAIN reqs :
        reqs[i].route = "schema" /\ reqs[i].pc = "done" /\ reqs[i].status = 200}

\* the position in the log of the operation op of request i
EntryOf(i, op) == CHOOSE k \in Entries(i) : log[k].op = op

\* no one wrote to the collection of introspection i since its count
Quiet(i) ==
    \A m \in DOMAIN log :
        m > EntryOf(i, "count") => ~Changed(m, reqs[i].resource)

\* the positions of the documents of docs that have the field f
Having(docs, f) == {n \in DOMAIN docs : f \in DOMAIN docs[n]}

Last(S) == CHOOSE n \in S : \A m \in S : m <= n

IdsOf(coll) ==
    {Get(InitialDb[coll][n], F_id) : n \in DOMAIN InitialDb[coll]}
    \cup {log[m].id : m \in {x \in DOMAIN log :
             log[x].op = "insert" /\ log[x].coll = coll /\ log[x].n = 1}}

\* the identifiers of the documents of coll after the first n operations
IdsAt(coll, n) == {id \in IdsOf(coll) : ExistedAt(coll, id, n)}

\* the document (coll, id) as it was created; no request replaces it here
DocOf(coll, id) == CHOOSE d \in Creations(coll, id) : TRUE

\* the top-level keys of the documents of coll after the first n operations
KeysAt(coll, n) == UNION {DOMAIN DocOf(coll, id) : id \in IdsAt(coll, n)}

\* C18: GET /_collection/:resource reads the count and the documents with
\* two separate store operations: the count of the response is that of
\* the collection when the store answered the count, and the schema is
\* built from the documents the collection had when the store answered the
\* query, so that with a writer in between the two reflect different
\* contents of the collection.
C18_CountAndSchemaOfTwoMoments ==
    \A i \in Introspections :
        LET coll == reqs[i].resource
        IN  /\ reqs[i].sent[1][F_count] =
                  Number(Cardinality(IdsAt(coll, EntryOf(i, "count"))))
            /\ DOMAIN reqs[i].merged =
                  KeysAt(coll, EntryOf(i, "find")) \ {F_id}
            /\ EntryOf(i, "count") < EntryOf(i, "find")

\* a schema with a field of a document that the count does not include
C18_Witness ==
    \E i \in Introspections :
        LET coll == reqs[i].resource
        IN  /\ \E f \in DOMAIN reqs[i].merged :
                  f \notin KeysAt(coll, EntryOf(i, "count"))
            /\ reqs[i].sent[1][F_count].n < Cardinality(IdsAt(coll, EntryOf(i, "find")))
            /\ \E m \in DOMAIN log :
                  /\ EntryOf(i, "count") < m /\ m < EntryOf(i, "find")
                  /\ log[m].op = "insert" /\ log[m].req # i


-----------------------------------------------------------------------------
(* Claims on the streams, checked under SpecStream *)

\* C14: every failure of a store operation, at any point of a request, the
\* failure of the cursor stream of a list response included, is answered
\* to the caller of that request with 500: none is swallowed and none
\* leaves the request without an answer.
C14_FailureAnswered500 ==
    \A k \in DOMAIN log :
        log[k].down =>
            /\ reqs[log[k].req].pc = "done"
            /\ reqs[log[k].req].status = 500
            /\ reqs[log[k].req].responses = 1

\* C15, as far as a finite run can tell: once the client of a list request
\* has disconnected, no further document is read from the cursor of the
\* request (which is to be closed instead).
C15_NoReadAfterDisconnect ==
    [][\A i \in DOMAIN reqs :
          (/\ reqs[i].route \in {"list", "nestedGet"}
           /\ reqs[i].pc = "stream"
           /\ ~reqs[i].connected) =>
              reqs'[i].cursor = reqs[i].cursor]_vars


-----------------------------------------------------------------------------
(* Claims on PUT and DELETE, checked under SpecResource *)

\* the identifiers of the documents of docs, in their order
IdsIn(docs) == [n \in DOMAIN docs |-> Get(docs[n], F_id)]

\* C19, the step of the store's answer to a PUT: the identifiers of the
\* collection are the same before and after, and when no document has the
\* identifier of the request the store is left as it was and the answer
\* is 204 (500 when the store failed).
C19_UpdateStep ==
    \A i \in DOMAIN reqs :
        (reqs[i].pc = "update" /\ reqs'[i].pc # "update") =>
            LET c == reqs[i].resource
                e == log'[Len(log')]
            IN  /\ IdsIn(db'[c]) = IdsIn(db[c])
                /\ \A o \in DOMAIN db : o # c => db'[o] = db[o]
                /\ ~Has(db[c], reqs[i].id) =>
                      /\ db' = db
                      /\ reqs'[i].status = IF e.down THEN 500 ELSE 204

\* C19: PUT /:resource/:id never changes the set of identifiers of a
\* collection: when no document has the identifier the request is still
\* answered 204, creates no document and leaves the collection unchanged.
C19_PutCreatesNothing == [][C19_UpdateStep]_vars

C19_Witness ==
    \E k \in DOMAIN log :
        /\ log[k].op = "update" /\ log[k].n = 0 /\ ~log[k].down
        /\ reqs[log[k].req].status = 204
        /\ ~Has(db[log[k].coll], log[k].id)

\* the removes the store answered, without a failure
Removes == {k \in DOMAIN log : log[k].op = "remove" /\ ~log[k].down}

\* removes j and k are of two requests for the same document, j the first,
\* the document there before j and not created again before k
TwoDeletes(j, k) ==
    /\ j < k
    /\ log[j].coll = log[k].coll /\ log[j].id = log[k].id
    /\ log[j].req # log[k].req
    /\ ExistedAt(log[j].coll, log[j].id, j - 1)
    /\ \A m \in (j + 1)..(k - 1) :
          ~(log[m].op = "insert" /\ log[m].coll = log[j].coll
                /\ log[m].id = log[j].id /\ log[m].n = 1)

\* C20: of two DELETE requests for the identifier of an existing document,
\* with no store error, exactly one is answered 204 and the other 404, in
\* whatever order the store answers them.
C20_OneDeleteWins ==
    \A j, k \in Removes :
        TwoDeletes(j, k) =>
            /\ reqs[log[j].req].status = 204
            /\ reqs[log[k].req].status = 404

\* the request that came second is answered first, and wins
C20_Witness ==
    \E j, k \in Removes :
        /\ TwoDeletes(j, k)
        /\ log[k].req < log[j].req
        /\ reqs[log[j].req].status = 204
        /\ reqs[log[k].req].status = 404

====
